---- MODULE Spec2Model ----
(***************************************************************************)
(* SPIMI index build (src/src/indexer/spimi.py), K-way block merge         *)
(* (src/src/indexer/merging.py), postings reader                           *)
(* (src/src/indexer/reader.py), BM25 ranker (src/src/ranking/bm25.py) and  *)
(* the build / search drivers of src/main.py.                              *)
(*                                                                         *)
(* Terms are numbered in their lexicographic (sorted()) order.  A Python   *)
(* dict that is later pickled is a sequence of <<key, value>> pairs in     *)
(* insertion order, because pickle.dumps writes the items in that order.   *)
(* A file that may be absent is a sequence: <<>> when the file does not    *)
(* exist, <<content>> when it does.                                        *)
(***************************************************************************)
EXTENDS Integers, Sequences, FiniteSets, TLC

\* ---------------------------------------------------------------- bounds
MaxDocs == 2
MaxTokens == 2
MaxLimit == 3
MaxQuery == 2
NamingDocs == 11
MaxBuilds == 2
MaxTopK == 3

Terms == {1, 2}
DocIds == {1, 2}
\* query tokens that are in no document
UnknownTerms == {9}

TokenLists == UNION {[1..n -> Terms] : n \in 0..MaxTokens}
Documents == DocIds \X TokenLists
\* the stream of the block-file-name scenario: doc_ids 1, 2, 3, ... in order,
\* each document one token
NamingDocuments == (1..NamingDocs) \X {<<t>> : t \in Terms}
Limits == 0..MaxLimit

\* ------------------------------------------------- Python dict (ordered)
DictKeys(p) == {p[i][1] : i \in 1..Len(p)}

DictGet(p, k) == p[CHOOSE i \in 1..Len(p) : p[i][1] = k][2]

DictGetOr(p, k, default) == IF k \in DictKeys(p) THEN DictGet(p, k) ELSE default

\* p[k] = v: an existing key keeps its place, a new key goes last
DictSet(p, k, v) ==
    IF k \in DictKeys(p)
    THEN [i \in 1..Len(p) |-> IF p[i][1] = k THEN <<k, v>> ELSE p[i]]
    ELSE Append(p, <<k, v>>)

RECURSIVE DictUpdate(_, _)
\* p.update(q): q's items in q's order, overwriting the value of a key p has
DictUpdate(p, q) ==
    IF q = <<>> THEN p
    ELSE DictUpdate(DictSet(p, Head(q)[1], Head(q)[2]), Tail(q))

RECURSIVE SumValues(_)
SumValues(p) == IF p = <<>> THEN 0 ELSE Head(p)[2] + SumValues(Tail(p))

RECURSIVE SetToSortedSeq(_)
\* sorted(S) for a set of integers
SetToSortedSeq(S) ==
    IF S = {} THEN <<>>
    ELSE LET m == CHOOSE x \in S : \A y \in S : x <= y
         IN <<m>> \o SetToSortedSeq(S \ {m})

\* ------------------------------------------------------- SPIMIIndexer
\* SPIMIIndexer.__init__ (the output directory is created when missing, and
\* files already in it are left alone)
NewIndexer(limit) ==
    [ block_size_limit |-> limit,
      dictionary       |-> <<>>,
      block_count      |-> 0,
      doc_lengths      |-> <<>>,
      total_length     |-> 0,
      doc_count        |-> 0 ]

\* sys.getsizeof(self.dictionary): the shallow size of the outer dict.  It
\* is a non-decreasing function of the number of keys (distinct terms) and
\* does not look into the posting dicts; the unit here is one key, so every
\* key-count threshold is a possible block_size_limit.
getsizeof(dictionary) == Cardinality(DOMAIN dictionary)

\* AddToken with the tf set to 1 instead of incremented
AddTokenOnce(dictionary, term, doc_id) ==
    LET postings == IF term \in DOMAIN dictionary THEN dictionary[term] ELSE <<>>
    IN [t \in (DOMAIN dictionary) \cup {term} |->
            IF t = term THEN DictSet(postings, doc_id, 1) ELSE dictionary[t]]

\* one round of "for term in tokens": self.dictionary[term] creates the
\* posting dict when missing, then the tf of doc_id is set to 0 when missing
\* and incremented
AddToken(dictionary, term, doc_id) ==
    LET postings == IF term \in DOMAIN dictionary THEN dictionary[term] ELSE <<>>
        zeroed   == IF doc_id \in DictKeys(postings) THEN postings
                    ELSE DictSet(postings, doc_id, 0)
        bumped   == DictSet(zeroed, doc_id, DictGet(zeroed, doc_id) + 1)
    IN [t \in (DOMAIN dictionary) \cup {term} |->
            IF t = term THEN bumped ELSE dictionary[t]]

RECURSIVE AddTokens(_, _, _)
AddTokens(dictionary, tokens, doc_id) ==
    IF tokens = <<>> THEN dictionary
    ELSE AddTokens(AddToken(dictionary, Head(tokens), doc_id), Tail(tokens), doc_id)

\* the block data of write_block: (term, postings) in sorted term order
BlockData(dictionary) ==
    LET sorted_terms == SetToSortedSeq(DOMAIN dictionary)
    IN [i \in 1..Len(sorted_terms) |-> <<sorted_terms[i], dictionary[sorted_terms[i]]>>]

\* write_block without "self.dictionary = defaultdict(dict)"
write_blockKeepsBuffer(st) ==
    LET n == st.self.block_count + 1
    IN [ self |-> [st.self EXCEPT !.block_count = n],
         dir  |-> [k \in (DOMAIN st.dir) \cup {n} |->
                      IF k = n THEN BlockData(st.self.dictionary) ELSE st.dir[k]] ]

\* SPIMIIndexer.write_block on the pair [self, dir]: block_<n>.bin is
\* written (replacing a file of that name) and the dictionary is reset
write_block(st) ==
    LET n == st.self.block_count + 1
    IN [ self |-> [st.self EXCEPT !.block_count = n, !.dictionary = <<>>],
         dir  |-> [k \in (DOMAIN st.dir) \cup {n} |->
                      IF k = n THEN BlockData(st.self.dictionary) ELSE st.dir[k]] ]

\* RecordStats with a document of no tokens left out of the count
RecordStatsSkipsEmpty(ix, doc_id, doc_len) ==
    [ix EXCEPT !.doc_lengths  = DictSet(@, doc_id, doc_len),
               !.total_length = @ + doc_len,
               !.doc_count    = IF doc_len = 0 THEN @ ELSE @ + 1]

\* RecordStats with the first length of a doc_id kept
RecordStatsFirstWins(ix, doc_id, doc_len) ==
    [ix EXCEPT !.doc_lengths  = IF doc_id \in DictKeys(@) THEN @
                                ELSE DictSet(@, doc_id, doc_len),
               !.total_length = @ + doc_len,
               !.doc_count    = @ + 1]

\* the statistics of one document: doc_lengths[doc_id] = doc_len,
\* total_length += doc_len, doc_count += 1
RecordStats(ix, doc_id, doc_len) ==
    [ix EXCEPT !.doc_lengths  = DictSet(@, doc_id, doc_len),
               !.total_length = @ + doc_len,
               !.doc_count    = @ + 1]

RECURSIVE AddTokensFlushing(_, _, _)
\* AddTokens with the flush test after every token
AddTokensFlushing(st, tokens, doc_id) ==
    IF tokens = <<>> THEN st
    ELSE LET added == [st EXCEPT !.self.dictionary = AddToken(@, Head(tokens), doc_id)]
         IN AddTokensFlushing(
                IF getsizeof(added.self.dictionary) >= added.self.block_size_limit
                THEN write_block(added) ELSE added,
                Tail(tokens), doc_id)

\* IndexDocument with the flush test inside "for term in tokens"
IndexDocumentFlushPerToken(st, doc) ==
    AddTokensFlushing([st EXCEPT !.self = RecordStats(@, doc[1], Len(doc[2]))],
                      doc[2], doc[1])

\* one round of the "for doc_id, tokens in doc_generator" loop
IndexDocument(st, doc) ==
    LET doc_id  == doc[1]
        tokens  == doc[2]
        doc_len == Len(tokens)
        counted == [RecordStats(st.self, doc_id, doc_len) EXCEPT
                      !.dictionary = AddTokens(@, tokens, doc_id)]
        added   == [st EXCEPT !.self = counted]
    IN IF getsizeof(counted.dictionary) >= counted.block_size_limit
       THEN write_block(added)
       ELSE added

\* FlushRemaining without the "if self.dictionary" test
FlushRemainingAlways(st) == write_block(st)

\* "if self.dictionary: self.write_block()" after the loop
FlushRemaining(st) ==
    IF DOMAIN st.self.dictionary # {} THEN write_block(st) ELSE st

RECURSIVE Gcd(_, _)
Gcd(a, b) == IF b = 0 THEN a ELSE Gcd(b, a % b)

\* the quotient a / b of two non-negative integers, b > 0, kept exact as a
\* reduced fraction
Quotient(a, b) == LET g == Gcd(a, b) IN [num |-> a \div g, den |-> b \div g]

\* SPIMIIndexer.save_metadata: the record pickled into metadata.pkl;
\* avgdl = total_length / doc_count, and 0 (that is 0/1) when doc_count = 0
Metadata(ix) ==
    [ N            |-> ix.doc_count,
      avgdl        |-> IF ix.doc_count > 0
                       THEN Quotient(ix.total_length, ix.doc_count)
                       ELSE [num |-> 0, den |-> 1],
      total_length |-> ix.total_length,
      doc_lengths  |-> ix.doc_lengths ]

RECURSIVE RunIndexingLoop(_, _)
RunIndexingLoop(st, docs) ==
    IF docs = <<>> THEN st
    ELSE RunIndexingLoop(IndexDocument(st, Head(docs)), Tail(docs))

\* SPIMIIndexer.run_indexing as a whole, on a new indexer and the directory
\* dir: [self, dir, metadata]
run_indexing(limit, dir, docs) ==
    LET st == FlushRemaining(RunIndexingLoop([self |-> NewIndexer(limit), dir |-> dir], docs))
    IN [self |-> st.self, dir |-> st.dir, metadata |-> Metadata(st.self)]

\* ------------------------------------------------------------ pickle
RECURSIVE Items(_)
Items(p) == IF p = <<>> THEN <<>> ELSE <<Head(p)[1], Head(p)[2]>> \o Items(Tail(p))

\* pickle.dumps(postings): the bytes of a {doc_id: tf} dict.  An opening
\* byte (EMPTY_DICT, 125), then key and value of every item in the dict's
\* order, then STOP (46).
pickle_dumps(postings) == <<125>> \o Items(postings) \o <<46>>

RECURSIVE Pairs(_)
Pairs(bytes) ==
    IF Len(bytes) < 2 THEN <<>>
    ELSE <<(<<bytes[1], bytes[2]>>)>> \o Pairs(SubSeq(bytes, 3, Len(bytes)))

\* what stands for the exception pickle.loads raises: a value no posting
\* list has (no document is numbered 0, no tf is 0)
PickleError == << <<0, 0>> >>

\* pickle.loads(data_bytes): the dict the bytes encode.  The load ends at
\* the first STOP and ignores what follows it; bytes that do not start a
\* dict, or end before the STOP, raise.
pickle_loads(bytes) ==
    LET stops == {i \in 1..Len(bytes) : bytes[i] = 46}
    IN IF stops = {} \/ bytes[1] # 125
       THEN PickleError
       ELSE LET stop == CHOOSE i \in stops : \A j \in stops : i <= j
            IN IF stop % 2 = 0
               THEN Pairs(SubSeq(bytes, 2, stop - 1))
               ELSE PickleError

\* ------------------------------------------------------- merge_blocks
RECURSIVE Digits(_)
\* the decimal digits of n as character codes ("0" is 48)
Digits(n) == IF n < 10 THEN <<48 + n>> ELSE Digits(n \div 10) \o <<48 + (n % 10)>>

\* the part of the file name block_<n>.bin on which two block files differ:
\* the digits and the "." (46) that ends them
BlockFileName(n) == Digits(n) \o <<46>>

RECURSIVE StrLess(_, _)
\* Python's str order: by character code, a proper prefix first
StrLess(s, t) ==
    IF t = <<>> THEN FALSE
    ELSE IF s = <<>> THEN TRUE
    ELSE IF Head(s) # Head(t) THEN Head(s) < Head(t)
    ELSE StrLess(Tail(s), Tail(t))

RECURSIVE SortedFiles(_)
\* sorted([... for f in os.listdir(block_dir) if f.endswith('.bin')]): the
\* block numbers in the order of their file names
SortedFiles(ns) ==
    IF ns = {} THEN <<>>
    ELSE LET m == CHOOSE x \in ns :
                    \A y \in ns \ {x} : StrLess(BlockFileName(x), BlockFileName(y))
         IN <<m>> \o SortedFiles(ns \ {m})

\* HeapMin with the stream index compared the other way round: of the
\* entries with the least term, the one of the highest stream
HeapMinHighIndexFirst(heap) ==
    CHOOSE e \in heap : \A f \in heap :
        e[1] < f[1] \/ (e[1] = f[1] /\ e[2] >= f[2])

\* heapq.heappop: the least (term, i, postings), compared as tuples; the
\* stream index i is unique, so postings are never compared
HeapMin(heap) ==
    CHOOSE e \in heap : \A f \in heap :
        e[1] < f[1] \/ (e[1] = f[1] /\ e[2] <= f[2])

\* "try: data = pickle.load(f) ... except EOFError: continue": the block
\* files that get an iterator.  bad names the files that hold no whole
\* pickle: pickle.load raises EOFError on an "empty" one (no byte at all, or
\* nothing after the protocol header) and that file is skipped; on a
\* "truncated" one it raises UnpicklingError, which nothing catches.
Loaded(dir, bad) ==
    [n \in (DOMAIN dir) \ {k \in DOMAIN bad : bad[k] = "empty"} |-> dir[n]]

\* merge_blocks up to the main loop, on the block files that loaded: they
\* are taken in name order, the first entry of every iterator is pushed on
\* the heap, and the output file is opened (created empty).  Stream indices
\* count from 1.
MergeOpen(dir) ==
    LET block_files == SortedFiles(DOMAIN dir)
        data        == [i \in 1..Len(block_files) |-> dir[block_files[i]]]
    IN [ iterators        |-> [i \in 1..Len(data) |->
                                  IF data[i] = <<>> THEN <<>> ELSE Tail(data[i])],
         heap             |-> {<<data[i][1][1], i, data[i][1][2]>> :
                                  i \in {j \in 1..Len(data) : data[j] # <<>>}},
         lexicon          |-> <<>>,
         offset           |-> 0,
         out_f            |-> <<>>,
         current_term     |-> <<>>,
         current_postings |-> <<>> ]

\* current_postings.update(postings) of the "term == current_term" branch
MergePostings(current_postings, postings) == DictUpdate(current_postings, postings)

\* lexicon[current_term] = {'offset': offset, 'length': length}
LexiconSet(lexicon, term, offset, length) ==
    [t \in (DOMAIN lexicon) \cup {term} |->
        IF t = term THEN [offset |-> offset, length |-> length] ELSE lexicon[t]]

\* FlushTerm without "offset += length"
FlushTermOffsetKept(m) ==
    LET data_bytes == pickle_dumps(m.current_postings)
        length     == Len(data_bytes)
    IN [m EXCEPT !.lexicon = LexiconSet(@, m.current_term[1], m.offset, length),
                 !.out_f   = @ \o data_bytes]

\* the flush of the accumulated term: serialise, record in the lexicon,
\* write, advance the offset
FlushTerm(m) ==
    LET data_bytes == pickle_dumps(m.current_postings)
        length     == Len(data_bytes)
    IN [m EXCEPT !.lexicon = LexiconSet(@, m.current_term[1], m.offset, length),
                 !.out_f   = @ \o data_bytes,
                 !.offset  = @ + length]

\* MergePop without the "elif term == current_term" branch: every popped
\* entry starts a new term
MergePopNoMerge(m) ==
    LET e        == HeapMin(m.heap)
        merged   ==
            IF m.current_term = <<>>
            THEN [m EXCEPT !.current_term = <<e[1]>>, !.current_postings = e[3]]
            ELSE [FlushTerm(m) EXCEPT !.current_term = <<e[1]>>,
                                      !.current_postings = e[3]]
        rest     == m.iterators[e[2]]
    IN IF rest = <<>>
       THEN [merged EXCEPT !.heap = @ \ {e}]
       ELSE [merged EXCEPT !.heap = (@ \ {e}) \cup {<<rest[1][1], e[2], rest[1][2]>>},
                           !.iterators[e[2]] = Tail(rest)]

\* one round of "while heap"
MergePop(m) ==
    LET e        == HeapMin(m.heap)
        term     == e[1]
        idx      == e[2]
        postings == e[3]
        merged   ==
            IF m.current_term = <<>>
            THEN [m EXCEPT !.current_term = <<term>>, !.current_postings = postings]
            ELSE IF <<term>> = m.current_term
            THEN [m EXCEPT !.current_postings = MergePostings(@, postings)]
            ELSE [FlushTerm(m) EXCEPT !.current_term = <<term>>,
                                      !.current_postings = postings]
        rest     == m.iterators[idx]
    IN IF rest = <<>>
       THEN [merged EXCEPT !.heap = @ \ {e}]
       ELSE [merged EXCEPT !.heap = (@ \ {e}) \cup {<<rest[1][1], idx, rest[1][2]>>},
                           !.iterators[idx] = Tail(rest)]

\* "Write global last term": as FlushTerm, but the offset is not advanced
MergeClose(m) ==
    IF m.current_term # <<>>
    THEN [FlushTerm(m) EXCEPT !.offset = m.offset]
    ELSE m

RECURSIVE MergeLoop(_)
MergeLoop(m) == IF m.heap = {} THEN m ELSE MergeLoop(MergePop(m))

\* merge_blocks as a whole on the directory dir and the files already at the
\* output paths: [final_index, lexicon] as they are when it returns
merge_blocks(dir, final_index, lexicon) ==
    IF DOMAIN dir = {}
    THEN [final_index |-> final_index, lexicon |-> lexicon]
    ELSE LET m == MergeClose(MergeLoop(MergeOpen(dir)))
         IN [final_index |-> <<m.out_f>>, lexicon |-> <<m.lexicon>>]

\* the merge's locals outside merge_blocks
NoMerge == <<>>


\* ---------------------------------------------------------- IndexReader
\* IndexReader.__init__: load_lexicon leaves the lexicon {} when the file
\* is missing; open_file leaves file_handle None (<<>>) when the file is
\* missing, else the handle is open with its cursor at 0 (<<0>>)
IndexReader(index_file, lexicon_file) ==
    [ lexicon     |-> IF lexicon_file = <<>> THEN <<>> ELSE lexicon_file[1],
      file_handle |-> IF index_file = <<>> THEN <<>> ELSE <<0>> ]

\* file_handle.seek(offset); file_handle.read(length) on the file's bytes:
\* the bytes read (fewer than length at the end of the file)
ReadAt(bytes, offset, length) ==
    SubSeq(bytes, offset + 1, IF offset + length <= Len(bytes)
                              THEN offset + length ELSE Len(bytes))

\* get_postings with a seek(0) on the open handle for a term that is in no
\* lexicon
get_postingsRewinds(reader, index_file, term) ==
    IF term \notin DOMAIN reader.lexicon
    THEN [ postings |-> <<>>,
           reader   |-> IF reader.file_handle # <<>>
                        THEN [reader EXCEPT !.file_handle = <<0>>] ELSE reader ]
    ELSE LET meta   == reader.lexicon[term]
             offset == meta.offset
             length == meta.length
         IN IF reader.file_handle # <<>>
            THEN LET data_bytes == ReadAt(index_file[1], offset, length)
                 IN [ postings |-> pickle_loads(data_bytes),
                      reader   |-> [reader EXCEPT !.file_handle =
                                       <<(IF offset <= Len(index_file[1])
                                          THEN offset + Len(data_bytes)
                                          ELSE offset)>>] ]
            ELSE [postings |-> <<>>, reader |-> reader]

\* get_postings without the seek: the read starts at the handle's cursor
get_postingsNoSeek(reader, index_file, term) ==
    IF term \notin DOMAIN reader.lexicon
    THEN [postings |-> <<>>, reader |-> reader]
    ELSE LET length == reader.lexicon[term].length
         IN IF reader.file_handle # <<>>
            THEN LET data_bytes == ReadAt(index_file[1], reader.file_handle[1], length)
                 IN [ postings |-> pickle_loads(data_bytes),
                      reader   |-> [reader EXCEPT !.file_handle =
                                       <<reader.file_handle[1] + Len(data_bytes)>>] ]
            ELSE [postings |-> <<>>, reader |-> reader]

\* IndexReader.get_postings: [postings, reader], the reader with the cursor
\* of its file handle where the call left it
get_postings(reader, index_file, term) ==
    IF term \notin DOMAIN reader.lexicon
    THEN [postings |-> <<>>, reader |-> reader]
    ELSE LET meta   == reader.lexicon[term]
             offset == meta.offset
             length == meta.length
         IN IF reader.file_handle # <<>>
            THEN LET data_bytes == ReadAt(index_file[1], offset, length)
                 IN [ postings |-> pickle_loads(data_bytes),
                      reader   |-> [reader EXCEPT !.file_handle =
                                       <<(IF offset <= Len(index_file[1])
                                          THEN offset + Len(data_bytes)
                                          ELSE offset)>>] ]
            ELSE [postings |-> <<>>, reader |-> reader]

\* ----------------------------------------------------------- BM25Ranker
\* the defaults k1 = 1.5 and b = 0.75, as fractions
K1 == [num |-> 3, den |-> 2]
B == [num |-> 3, den |-> 4]

BM25Ranker(doc_lengths, avgdl, N) ==
    [doc_lengths |-> doc_lengths, avgdl |-> avgdl, N |-> N, k1 |-> K1, b |-> B]

\* Scores and idf are floats in the code; here they are fixed-point numbers
\* with four decimals, rounded down.

\* ln(n) * 10000 for n = 1..32
LnTable ==
    << 0, 6931, 10986, 13863, 16094, 17918, 19459, 20794, 21972, 23026, 23979,
       24849, 25649, 26391, 27081, 27726, 28332, 28904, 29444, 29957, 30445,
       30910, 31355, 31781, 32189, 32581, 32958, 33322, 33673, 34012, 34340,
       34657 >>

\* the float nan (0/0 in numpy), which argsort orders after every number
NaN == -1000000000

\* idf = np.log((N - df + 0.5) / (df + 0.5) + 1): the argument is
\* (2N + 2) / (2 df + 1)
Idf(N, df) == LnTable[2 * N + 2] - LnTable[2 * df + 1]

\* TermScore without the tf in the numerator
TermScoreNoTf(ranker, idf, tf, doc_len) ==
    LET k1 == ranker.k1
        b  == ranker.b
        a  == ranker.avgdl
    IN IF a.num = 0
       THEN (IF doc_len = 0 THEN NaN ELSE 0)
       ELSE (idf * (k1.num + k1.den) * b.den * a.num)
            \div (tf * k1.den * b.den * a.num
                  + k1.num * ((b.den - b.num) * a.num + b.num * doc_len * a.den))

\* idf * (tf * (k1 + 1)) / (tf + k1 * (1 - b + b * (doc_len / avgdl))) for
\* one document.  With avgdl = 0 numpy divides by zero: doc_len / avgdl is
\* inf (the score 0) for doc_len > 0 and nan for doc_len = 0.
TermScore(ranker, idf, tf, doc_len) ==
    LET k1 == ranker.k1
        b  == ranker.b
        a  == ranker.avgdl
    IN IF a.num = 0
       THEN (IF doc_len = 0 THEN NaN ELSE 0)
       ELSE (idf * tf * (k1.num + k1.den) * b.den * a.num)
            \div (tf * k1.den * b.den * a.num
                  + k1.num * ((b.den - b.num) * a.num + b.num * doc_len * a.den))

FloatAdd(x, y) == IF x = NaN \/ y = NaN THEN NaN ELSE x + y

\* x <= y in the order np.argsort sorts by
FloatLeq(x, y) == y = NaN \/ (x # NaN /\ x <= y)

\* the set of all candidate docs: the union of the posting lists' keys
AllCandidateDocs(candidate_postings) ==
    UNION {DictKeys(candidate_postings[t]) : t \in DOMAIN candidate_postings}

\* "scores[indices] += term_scores" for one term of the query
AddTermScores(ranker, scores, postings) ==
    LET df  == Len(postings)
        idf == Idf(ranker.N, df)
    IN [d \in DOMAIN scores |->
          IF d \in DictKeys(postings)
          THEN FloatAdd(scores[d],
                        TermScore(ranker, idf, DictGet(postings, d),
                                  DictGetOr(ranker.doc_lengths, d, 0)))
          ELSE scores[d]]

RECURSIVE ScoreLoop(_, _, _, _)
\* "for term in query_terms", a term that is no key of candidate_postings
\* skipped
ScoreLoop(ranker, query_terms, candidate_postings, scores) ==
    IF query_terms = <<>> THEN scores
    ELSE LET term == Head(query_terms)
         IN ScoreLoop(ranker, Tail(query_terms), candidate_postings,
                      IF term \notin DOMAIN candidate_postings THEN scores
                      ELSE AddTermScores(ranker, scores, candidate_postings[term]))

RECURSIVE AscendingOrders(_, _)
\* DescendingOrders without the "[::-1]": the docs by ascending score
AscendingOrders(docs, scores) ==
    IF docs = {} THEN {<<>>}
    ELSE UNION {{<<d>> \o rest : rest \in AscendingOrders(docs \ {d}, scores)} :
                  d \in {m \in docs : \A o \in docs : FloatLeq(scores[m], scores[o])}}

RECURSIVE DescendingOrders(_, _)
\* np.argsort(scores)[::-1]: every order of the docs by descending score;
\* docs of equal score come in any order (doc_ids lists a set)
DescendingOrders(docs, scores) ==
    IF docs = {} THEN {<<>>}
    ELSE UNION {{<<d>> \o rest : rest \in DescendingOrders(docs \ {d}, scores)} :
                  d \in {m \in docs : \A o \in docs : FloatLeq(scores[o], scores[m])}}

Take(s, k) == SubSeq(s, 1, IF Len(s) <= k THEN Len(s) ELSE k)

\* BM25Ranker.rank: the set of lists [(doc_id, score), ...] it can return
rank(ranker, query_terms, candidate_postings, top_k) ==
    LET all_candidate_docs == AllCandidateDocs(candidate_postings)
        scores == ScoreLoop(ranker, query_terms, candidate_postings,
                            [d \in all_candidate_docs |-> 0])
    IN IF all_candidate_docs = {} THEN {<<>>}
       ELSE {[i \in 1..Len(Take(order, top_k)) |-> <<order[i], scores[order[i]]>>] :
                order \in DescendingOrders(all_candidate_docs, scores)}

\* ---------------------------------------------------------- search_loop
\* top_k of the call in search_loop
TopK == 10

Queries == UNION {[1..n -> Terms \cup UnknownTerms] : n \in 1..MaxQuery}

RECURSIVE GetAllPostings(_, _, _, _)
\* "for token in query_tokens": [candidate_postings, reader]; a token whose
\* posting list is empty gets no key
GetAllPostings(reader, index_file, query_tokens, candidate_postings) ==
    IF query_tokens = <<>>
    THEN [candidate_postings |-> candidate_postings, reader |-> reader]
    ELSE LET token == Head(query_tokens)
             got   == get_postings(reader, index_file, token)
         IN GetAllPostings(got.reader, index_file, Tail(query_tokens),
                IF got.postings = <<>> THEN candidate_postings
                ELSE [t \in (DOMAIN candidate_postings) \cup {token} |->
                        IF t = token THEN got.postings ELSE candidate_postings[t]])

\* no reader, no ranker, no query yet
None == <<>>

\* the threads that share one IndexReader
Threads == {1, 2}

\* a thread that is in no get_postings call
Idle == [pc |-> "idle"]

VARIABLES
    pc,               \* where the build is
    self,             \* the SPIMIIndexer object
    block_dir,        \* output_blocks/block_<n>.bin: n -> block data
    metadata_pkl,     \* output_blocks/metadata.pkl
    final_index_bin,  \* final_index.bin: the bytes
    lexicon_dat,      \* lexicon.dat: the pickled lexicon
    merge,            \* the locals of merge_blocks
    reader,           \* search_loop's IndexReader
    ranker,           \* search_loop's BM25Ranker
    query_tokens,     \* the tokens of the last query
    top_results,      \* what rank returned for it
    consumed,         \* the documents pulled from doc_generator so far
    builds,           \* the number of build_index runs started
    damaged,          \* block files that do not hold a whole pickle: n -> kind
    calls             \* the get_postings calls of the reader's client threads

build_vars == <<self, block_dir, metadata_pkl, final_index_bin, lexicon_dat, merge, consumed>>
search_vars == <<reader, ranker, query_tokens, top_results>>
env_vars == <<builds, damaged, calls>>
vars == <<pc, build_vars, search_vars, env_vars>>

Init ==
    /\ pc = "indexing"
    /\ \E limit \in Limits : self = NewIndexer(limit)
    /\ block_dir = <<>>
    /\ metadata_pkl = <<>>
    /\ final_index_bin = <<>>
    /\ lexicon_dat = <<>>
    /\ merge = NoMerge
    /\ consumed = <<>>
    /\ reader = None
    /\ ranker = None
    /\ query_tokens = None
    /\ top_results = None
    /\ builds = 1
    /\ damaged = <<>>
    /\ calls = [th \in Threads |-> Idle]

\* run_indexing: one document pulled from the generator
NextDocument(doc) ==
    /\ pc = "indexing"
    /\ LET st == IndexDocument([self |-> self, dir |-> block_dir], doc)
       IN /\ self' = st.self
          /\ block_dir' = st.dir
    /\ consumed' = Append(consumed, doc)
    /\ UNCHANGED <<pc, metadata_pkl, final_index_bin, lexicon_dat, merge, search_vars, env_vars>>

\* run_indexing: the generator is exhausted
EndOfStream ==
    /\ pc = "indexing"
    /\ LET st == FlushRemaining([self |-> self, dir |-> block_dir])
       IN /\ self' = st.self
          /\ block_dir' = st.dir
          /\ metadata_pkl' = <<Metadata(st.self)>>
    /\ pc' = "indexed"
    /\ UNCHANGED <<final_index_bin, lexicon_dat, merge, consumed, search_vars, env_vars>>

\* merge_blocks: "if not block_files: return"
MergeNoBlocks ==
    /\ pc = "indexed"
    /\ DOMAIN block_dir = {}
    /\ pc' = "built"
    /\ UNCHANGED <<self, block_dir, metadata_pkl, final_index_bin, lexicon_dat, merge, consumed, search_vars, env_vars>>

\* merge_blocks: blocks loaded, heap filled, output file opened
MergeStart ==
    /\ pc = "indexed"
    /\ DOMAIN block_dir # {}
    /\ \A n \in DOMAIN damaged : damaged[n] = "empty"
    /\ merge' = MergeOpen(Loaded(block_dir, damaged))
    /\ final_index_bin' = <<merge'.out_f>>
    /\ pc' = "merging"
    /\ UNCHANGED <<self, block_dir, metadata_pkl, lexicon_dat, consumed, search_vars, env_vars>>

\* merge_blocks: one round of the main loop
MergeStep ==
    /\ pc = "merging"
    /\ merge.heap # {}
    /\ merge' = MergePop(merge)
    /\ final_index_bin' = <<merge'.out_f>>
    /\ UNCHANGED <<pc, self, block_dir, metadata_pkl, lexicon_dat, consumed, search_vars, env_vars>>

\* merge_blocks: the heap is empty; last term written, lexicon saved
MergeFinish ==
    /\ pc = "merging"
    /\ merge.heap = {}
    /\ LET m == MergeClose(merge)
       IN /\ final_index_bin' = <<m.out_f>>
          /\ lexicon_dat' = <<m.lexicon>>
    /\ merge' = NoMerge
    /\ pc' = "built"
    /\ UNCHANGED <<self, block_dir, metadata_pkl, consumed, search_vars, env_vars>>

\* search_loop up to "Search Engine Ready!": it returns when metadata.pkl is
\* missing
SearchOpen ==
    /\ pc = "built"
    /\ metadata_pkl # <<>>
    /\ LET metadata == metadata_pkl[1]
       IN ranker' = BM25Ranker(metadata.doc_lengths, metadata.avgdl, metadata.N)
    /\ reader' = IndexReader(final_index_bin, lexicon_dat)
    /\ pc' = "search"
    /\ UNCHANGED <<build_vars, query_tokens, top_results, env_vars>>

\* search_loop: one query; rank is not called when no token has postings
Search(tokens) ==
    /\ pc = "search"
    /\ LET got == GetAllPostings(reader, final_index_bin, tokens, <<>>)
       IN /\ reader' = got.reader
          /\ IF DOMAIN got.candidate_postings = {}
             THEN top_results' = <<>>
             ELSE top_results' \in rank(ranker, tokens, got.candidate_postings, TopK)
    /\ query_tokens' = tokens
    /\ UNCHANGED <<pc, build_vars, ranker, env_vars>>

Build ==
    \/ EndOfStream
    \/ MergeNoBlocks
    \/ MergeStart
    \/ MergeStep
    \/ MergeFinish

Next ==
    \/ \E doc \in Documents : Len(consumed) < MaxDocs /\ NextDocument(doc)
    \/ Build

Spec == Init /\ [][Next]_vars

\* the build of the stream of documents 1, 2, 3, ..., one token each: with a
\* flush after every document the block numbers reach two digits
NextNaming ==
    \/ \E doc \in NamingDocuments : doc[1] = Len(consumed) + 1 /\ NextDocument(doc)
    \/ Build

SpecNaming == Init /\ [][NextNaming]_vars

\* the build followed by the search console
NextSearch ==
    \/ Next
    \/ SearchOpen
    \/ \E tokens \in Queries : Search(tokens)

SpecSearch == Init /\ [][NextSearch]_vars

\* ---------------------------------------- get_postings, step by step
\* Threads that share the reader run get_postings one statement at a time;
\* the file handle, and so its cursor, is the reader's and not the call's.
\* The threads ask for different terms: a call starts for a term that no
\* call of another thread holds.

\* get_postings up to "if self.file_handle": the lexicon lookup; the call
\* returns {} at once for a term not in the lexicon or a reader without file
CallStart(th, term) ==
    /\ pc = "search"
    /\ calls[th].pc = "idle"
    /\ \A o \in Threads \ {th} :
          IF calls[o].pc = "idle" THEN TRUE ELSE calls[o].term # term
    /\ IF term \in DOMAIN reader.lexicon /\ reader.file_handle # <<>>
       THEN calls' = [calls EXCEPT ![th] =
                        [ pc     |-> "seek",
                          term   |-> term,
                          offset |-> reader.lexicon[term].offset,
                          length |-> reader.lexicon[term].length ]]
       ELSE calls' = [calls EXCEPT ![th] =
                        [pc |-> "done", term |-> term, postings |-> <<>>]]
    /\ UNCHANGED <<pc, build_vars, search_vars, builds, damaged>>

\* self.file_handle.seek(offset)
CallSeek(th) ==
    /\ pc = "search"
    /\ calls[th].pc = "seek"
    /\ reader' = [reader EXCEPT !.file_handle = <<calls[th].offset>>]
    /\ calls' = [calls EXCEPT ![th].pc = "read"]
    /\ UNCHANGED <<pc, build_vars, ranker, query_tokens, top_results, builds, damaged>>

\* data_bytes = self.file_handle.read(length); return pickle.loads(data_bytes):
\* the read starts where the handle's cursor is now
CallRead(th) ==
    /\ pc = "search"
    /\ calls[th].pc = "read"
    /\ LET cursor     == reader.file_handle[1]
           data_bytes == ReadAt(final_index_bin[1], cursor, calls[th].length)
       IN /\ reader' = [reader EXCEPT !.file_handle = <<cursor + Len(data_bytes)>>]
          /\ calls' = [calls EXCEPT ![th] =
                         [ pc       |-> "done",
                           term     |-> calls[th].term,
                           postings |-> pickle_loads(data_bytes) ]]
    /\ UNCHANGED <<pc, build_vars, ranker, query_tokens, top_results, builds, damaged>>

\* the caller has taken the result
CallReturn(th) ==
    /\ pc = "search"
    /\ calls[th].pc = "done"
    /\ calls' = [calls EXCEPT ![th] = Idle]
    /\ UNCHANGED <<pc, build_vars, search_vars, builds, damaged>>

\* the build, then threads that call get_postings on the one reader
NextConcurrent ==
    \/ Next
    \/ SearchOpen
    \/ \E th \in Threads :
          \/ \E term \in Terms : CallStart(th, term)
          \/ CallSeek(th)
          \/ CallRead(th)
          \/ CallReturn(th)

SpecConcurrent == Init /\ [][NextConcurrent]_vars

\* ------------------------------------------------- damaged block files
\* A block file is found without a whole pickle in it when merge_blocks
\* starts (a write that was cut short, a file of an interrupted run): the
\* kind says what pickle.load does with it.
DamageBlock(n, kind) ==
    /\ pc = "indexed"
    /\ n \in DOMAIN block_dir
    /\ n \notin DOMAIN damaged
    /\ damaged' = [k \in (DOMAIN damaged) \cup {n} |->
                      IF k = n THEN kind ELSE damaged[k]]
    /\ UNCHANGED <<pc, build_vars, search_vars, builds, calls>>

\* merge_blocks: pickle.load raises UnpicklingError while the blocks are
\* loaded, before the output file is opened; the exception leaves
\* merge_blocks and build_index
MergeFail ==
    /\ pc = "indexed"
    /\ DOMAIN block_dir # {}
    /\ \E n \in DOMAIN damaged : damaged[n] = "truncated"
    /\ pc' = "failed"
    /\ UNCHANGED <<build_vars, search_vars, env_vars>>

\* the build with block files that may be damaged before the merge
NextFault ==
    \/ Next
    \/ \E n \in 1..MaxDocs, kind \in {"empty", "truncated"} : DamageBlock(n, kind)
    \/ MergeFail

SpecFault == Init /\ [][NextFault]_vars

\* ------------------------------------------------------ build_index again
\* build_index is run once more: a new SPIMIIndexer on the same output
\* directory, whose files __init__ leaves as they are, and a new stream
Rebuild(limit) ==
    /\ pc = "built"
    /\ builds < MaxBuilds
    /\ self' = NewIndexer(limit)
    /\ consumed' = <<>>
    /\ builds' = builds + 1
    /\ pc' = "indexing"
    /\ UNCHANGED <<block_dir, metadata_pkl, final_index_bin, lexicon_dat, merge,
                   search_vars, damaged, calls>>

\* builds that follow one another in the same directory and output paths
NextRebuild ==
    \/ Next
    \/ \E limit \in Limits : Rebuild(limit)

SpecRebuild == Init /\ [][NextRebuild]_vars

\* ------------------------------------------------- longer documents
\* token lists of one token more than those of Documents
WideTokenLists == UNION {[1..n -> Terms] : n \in 0..(MaxTokens + 1)}

\* the stream of documents 1, 2, ... in order, each with such a token list
WideDocuments == (1..MaxDocs) \X WideTokenLists

\* the build of a stream of distinct doc_ids with the longer documents
NextWide ==
    \/ \E doc \in WideDocuments : doc[1] = Len(consumed) + 1 /\ NextDocument(doc)
    \/ Build

SpecWide == Init /\ [][NextWide]_vars

\* ------------------------------------------------ leaving the console
\* search_loop: "exit" ends the loop and the function; its reader goes out
\* of scope and __del__ closes the file.  What the console showed for the
\* last query stays on the screen.
SearchExit ==
    /\ pc = "search"
    /\ reader' = None
    /\ ranker' = None
    /\ pc' = "built"
    /\ UNCHANGED <<build_vars, query_tokens, top_results, env_vars>>

\* the build, then search consoles one after another
NextReopen ==
    \/ NextSearch
    \/ SearchExit

SpecReopen == Init /\ [][NextReopen]_vars

\* ------------------------------------------------------------ properties
RECURSIVE Count(_, _)
\* the number of occurrences of term t in a token list
Count(tokens, t) ==
    IF tokens = <<>> THEN 0
    ELSE (IF Head(tokens) = t THEN 1 ELSE 0) + Count(Tail(tokens), t)

RECURSIVE TotalTokens(_)
TotalTokens(docs) == IF docs = <<>> THEN 0 ELSE Len(Head(docs)[2]) + TotalTokens(Tail(docs))

DocIdsOf(docs) == {docs[i][1] : i \in 1..Len(docs)}

DistinctDocIds(docs) == \A i, j \in 1..Len(docs) : i # j => docs[i][1] # docs[j][1]

\* the posting list of term t in the index on disk, as a reader opened on
\* the files now reads it
FinalPostings(t) ==
    get_postings(IndexReader(final_index_bin, lexicon_dat), final_index_bin, t).postings

\* the lexicon on disk; no term when lexicon.dat does not exist
LexiconOnDisk == IF lexicon_dat = <<>> THEN <<>> ELSE lexicon_dat[1]

\* the terms of the block file block_<n>.bin
BlockTerms(n) == {block_dir[n][i][1] : i \in 1..Len(block_dir[n])}

\* the posting list block_<n>.bin holds for term t
BlockPostings(n, t) ==
    block_dir[n][CHOOSE i \in 1..Len(block_dir[n]) : block_dir[n][i][1] = t][2]

\* the blocks that hold doc_id d under term t
BlocksWith(t, d) ==
    {n \in DOMAIN block_dir : t \in BlockTerms(n) /\ d \in DictKeys(BlockPostings(n, t))}

RECURSIVE SumBlockTf(_, _, _)
SumBlockTf(ns, t, d) ==
    IF ns = {} THEN 0
    ELSE LET n == CHOOSE x \in ns : TRUE
         IN DictGet(BlockPostings(n, t), d) + SumBlockTf(ns \ {n}, t, d)

RECURSIVE SumFinalTf(_)
SumFinalTf(ts) ==
    IF ts = {} THEN 0
    ELSE LET t == CHOOSE x \in ts : TRUE
         IN SumValues(FinalPostings(t)) + SumFinalTf(ts \ {t})

\* C1: after run_indexing and merge_blocks on a stream of pairwise distinct
\* doc_ids, whatever the block-size limit, the final posting list of every
\* term holds exactly the documents the term occurs in, each once, with the
\* number of occurrences of the term in that document as its tf.
C1_PostingsExact ==
    (pc = "built" /\ DistinctDocIds(consumed)) =>
        \A t \in Terms :
            LET p == FinalPostings(t)
            IN /\ Len(p) = Cardinality(DictKeys(p))
               /\ DictKeys(p) = {consumed[i][1] : i \in {j \in 1..Len(consumed) :
                                                         Count(consumed[j][2], t) > 0}}
               /\ \A i \in 1..Len(consumed) :
                     Count(consumed[i][2], t) > 0 =>
                        DictGet(p, consumed[i][1]) = Count(consumed[i][2], t)

\* C1's case: two documents in two blocks that share a term, one of them
\* with the term twice
C1_Witness ==
    /\ pc = "built"
    /\ DistinctDocIds(consumed)
    /\ Len(consumed) = 2
    /\ self.block_count = 2
    /\ \E t \in Terms : Count(consumed[1][2], t) = 2 /\ Count(consumed[2][2], t) = 1

\* C2: when several blocks hold the same doc_id under the same term, the
\* merged posting list carries the sum of their tf values for that doc_id.
C2_CollisionSummed ==
    pc = "built" =>
        \A t \in Terms : \A d \in DocIds :
            BlocksWith(t, d) # {} =>
                /\ d \in DictKeys(FinalPostings(t))
                /\ DictGet(FinalPostings(t), d) = SumBlockTf(BlocksWith(t, d), t, d)

\* C3: the tf values of all final posting lists add up to the number of
\* tokens of all documents consumed, which is metadata's total_length.
C3_TokensConserved ==
    pc = "built" =>
        /\ SumFinalTf(Terms) = TotalTokens(consumed)
        /\ metadata_pkl[1].total_length = TotalTokens(consumed)

\* the byte ranges of lexicon lex tile a file of size bytes, in term order
Tiles(lex, size) ==
    LET terms == SetToSortedSeq(DOMAIN lex)
    IN /\ \A i \in 1..Len(terms) :
             lex[terms[i]].offset =
                 (IF i = 1 THEN 0
                  ELSE lex[terms[i - 1]].offset + lex[terms[i - 1]].length)
       /\ \A i \in 1..Len(terms) : lex[terms[i]].length > 0
       /\ size = (IF terms = <<>> THEN 0
                  ELSE lex[terms[Len(terms)]].offset + lex[terms[Len(terms)]].length)

\* C4: after merge_blocks has merged a set of blocks, the lexicon's byte
\* ranges tile the final postings file: the first term starts at 0, every
\* next term starts where the previous one ends, and the last one ends at
\* the end of the file.
C4_LexiconTiles ==
    (pc = "built" /\ DOMAIN block_dir # {}) =>
        /\ lexicon_dat # <<>>
        /\ final_index_bin # <<>>
        /\ Tiles(lexicon_dat[1], Len(final_index_bin[1]))

\* C4's case: a merge of two blocks that leaves two terms in the lexicon
C4_Witness ==
    /\ pc = "built"
    /\ Cardinality(DOMAIN block_dir) = 2
    /\ Cardinality(DOMAIN LexiconOnDisk) = 2

\* what a step of the merge appends to the final postings file
BytesWritten == Len(final_index_bin'[1]) - Len(final_index_bin[1])

\* the lexicon after a step of the merge: the local one, or the saved one
LexiconAfter == IF pc' = "merging" THEN merge'.lexicon ELSE lexicon_dat'[1]

\* a step of the merge that writes to the file records exactly one term, a
\* term not yet in the lexicon, with the range just written; a step that
\* does not write leaves the lexicon's terms as they are; no step changes a
\* recorded range
FlushedOnce ==
    pc = "merging" =>
        /\ \A t \in DOMAIN merge.lexicon :
              t \in DOMAIN LexiconAfter /\ LexiconAfter[t] = merge.lexicon[t]
        /\ BytesWritten = 0 => DOMAIN LexiconAfter = DOMAIN merge.lexicon
        /\ BytesWritten # 0 =>
              \E t \in (DOMAIN LexiconAfter) \ (DOMAIN merge.lexicon) :
                 /\ DOMAIN LexiconAfter = (DOMAIN merge.lexicon) \cup {t}
                 /\ LexiconAfter[t] = [offset |-> Len(final_index_bin[1]),
                                       length |-> BytesWritten]

\* C5: after merge_blocks the lexicon's terms are the terms of all block
\* files together, and every term is flushed to the final postings file
\* exactly once.
C5_TermsOnce ==
    /\ [](pc = "built" =>
            DOMAIN LexiconOnDisk = UNION {BlockTerms(n) : n \in DOMAIN block_dir})
    /\ [][FlushedOnce]_vars

\* C5's case: two blocks that both hold both terms
C5_Witness ==
    /\ pc = "built"
    /\ Cardinality(DOMAIN block_dir) = 2
    /\ \A n \in DOMAIN block_dir : BlockTerms(n) = Terms

\* a block-size limit no buffer reaches: the whole stream goes to one block
SingleBlockLimit == Cardinality(Terms) + 1

\* C6: a build that flushes one block per document leaves the same final
\* postings file and lexicon, byte for byte, as the single-block build of
\* the same stream of distinct doc_ids, for any number of documents.
C6_SameAsSingleBlock ==
    (pc = "built" /\ DistinctDocIds(consumed) /\ self.block_count = Len(consumed)) =>
        LET one == run_indexing(SingleBlockLimit, <<>>, consumed)
            out == merge_blocks(one.dir, <<>>, <<>>)
        IN /\ final_index_bin = out.final_index
           /\ lexicon_dat = out.lexicon

\* the statistics agree with the documents pulled so far
StatsAgree(ix) ==
    /\ ix.doc_count = Len(consumed)
    /\ Cardinality(DictKeys(ix.doc_lengths)) = ix.doc_count
    /\ Len(ix.doc_lengths) = ix.doc_count
    /\ SumValues(ix.doc_lengths) = ix.total_length

\* the saved metadata carries the indexer's statistics
MetadataAgrees ==
    metadata_pkl # <<>> =>
        /\ metadata_pkl[1].N = self.doc_count
        /\ metadata_pkl[1].doc_lengths = self.doc_lengths
        /\ metadata_pkl[1].total_length = self.total_length

\* C7 as stated: for any stream, after every document, N = |doc_lengths| =
\* the number of documents pulled, and the doc_lengths values add up to
\* total_length.
C7_StatsAnyStream == StatsAgree(self) /\ MetadataAgrees

\* C7 amended: the same, for a stream of pairwise distinct doc_ids.
C7_StatsDistinctIds == DistinctDocIds(consumed) => (StatsAgree(self) /\ MetadataAgrees)

\* C7's case: mid-stream, two documents pulled, one of them without tokens
C7_Witness ==
    /\ pc = "indexing"
    /\ Len(consumed) = 2
    /\ DistinctDocIds(consumed)
    /\ consumed[1][2] = <<>>
    /\ Len(consumed[2][2]) = 2

\* the length of the last document of docs with doc_id d
LastLength(docs, d) ==
    LET last == CHOOSE i \in 1..Len(docs) :
                    docs[i][1] = d /\ \A j \in (i + 1)..Len(docs) : docs[j][1] # d
    IN Len(docs[last][2])

\* C8: when the stream yields a doc_id twice, doc_lengths[doc_id] is the
\* length of its last occurrence, N counts both occurrences and total_length
\* adds the lengths of both.
C8_LastLengthWins ==
    /\ \A d \in DocIdsOf(consumed) :
          /\ d \in DictKeys(self.doc_lengths)
          /\ DictGet(self.doc_lengths, d) = LastLength(consumed, d)
    /\ self.doc_count = Len(consumed)
    /\ self.total_length = TotalTokens(consumed)

\* C8's case: the same doc_id twice, the second time with fewer tokens
C8_Witness ==
    /\ Len(consumed) = 2
    /\ consumed[1][1] = consumed[2][1]
    /\ Len(consumed[1][2]) = 2
    /\ Len(consumed[2][2]) = 1
    /\ self.doc_count = 2
    /\ self.total_length = 3

\* C9: the build of a source that yields no document leaves an empty
\* lexicon at the lexicon path and metadata with N = 0 and avgdl = 0.
C9_EmptyBuild ==
    (pc = "built" /\ consumed = <<>>) =>
        /\ lexicon_dat = <<(<<>>)>>
        /\ metadata_pkl # <<>>
        /\ metadata_pkl[1].N = 0
        /\ metadata_pkl[1].avgdl.num = 0

RECURSIVE Dedup(_)
\* the distinct terms of a token sequence, in the order of first occurrence
Dedup(tokens) ==
    IF tokens = <<>> THEN <<>>
    ELSE LET front == Dedup(SubSeq(tokens, 1, Len(tokens) - 1))
             last  == tokens[Len(tokens)]
         IN IF \E i \in 1..Len(front) : front[i] = last THEN front
            ELSE Append(front, last)

\* what the search loop can show for a query, given the reader and ranker
SearchResults(tokens) ==
    LET got == GetAllPostings(reader, final_index_bin, tokens, <<>>)
    IN IF DOMAIN got.candidate_postings = {} THEN {<<>>}
       ELSE rank(ranker, tokens, got.candidate_postings, TopK)

\* C10: a query with a repeated term gets the doc_ids and scores of the
\* query of its distinct terms.
C10_RepeatsIgnored ==
    (pc = "search" /\ query_tokens # None) =>
        top_results \in SearchResults(Dedup(query_tokens))

\* C11: constructing an IndexReader while the lexicon file or the postings
\* file does not exist is fatal: the search console gets no reader, so no
\* get_postings call can answer with an empty posting list.
C11_MissingFileFatal ==
    (lexicon_dat = <<>> \/ final_index_bin = <<>>) => pc # "search"

\* the tokens of a query are all absent from the reader's lexicon
AllUnknown(tokens) == \A i \in 1..Len(tokens) : tokens[i] \notin DOMAIN reader.lexicon

\* C12: get_postings for a term that is not in the lexicon returns the empty
\* posting list and leaves the reader's file handle, cursor included, as it
\* was; a query of such terms only leaves the reader untouched and finds
\* nothing.
C12_UnknownTermUntouched ==
    /\ [](pc = "search" =>
            \A t \in Terms \cup UnknownTerms :
                t \notin DOMAIN reader.lexicon =>
                    get_postings(reader, final_index_bin, t) =
                        [postings |-> <<>>, reader |-> reader])
    /\ [][(pc = "search" /\ pc' = "search" /\ AllUnknown(query_tokens')) =>
              (reader' = reader /\ top_results' = <<>>)]_vars

\* C12's case: the cursor is past 0 from an earlier read, and the last query
\* had only terms that are not in the lexicon
C12_Witness ==
    /\ pc = "search"
    /\ reader.file_handle # <<>>
    /\ reader.file_handle[1] > 0
    /\ query_tokens # None
    /\ AllUnknown(query_tokens)
    /\ top_results = <<>>

\* C13: a get_postings call that runs while another call is in progress on
\* the same reader returns the posting list stored for its own term.
C13_OwnPostings ==
    \A th \in Threads :
        (pc = "search" /\ calls[th].pc = "done") =>
            calls[th].postings = FinalPostings(calls[th].term)

RECURSIVE PostingEntries(_, _)
\* the number of (doc_id, tf) entries of the posting lists of terms ts
PostingEntries(dictionary, ts) ==
    IF ts = {} THEN 0
    ELSE LET t == CHOOSE x \in ts : TRUE
         IN Len(dictionary[t]) + PostingEntries(dictionary, ts \ {t})

\* C14: the size estimate of the flush test grows with the number of posting
\* entries buffered, so that an unbounded stream of non-empty documents
\* reaches any finite limit: a document that adds posting entries to the
\* buffer without a flush leaves the estimate larger than it was.
C14_EstimateGrows ==
    [][(/\ pc = "indexing"
        /\ pc' = "indexing"
        /\ self'.block_count = self.block_count
        /\ PostingEntries(self'.dictionary, DOMAIN self'.dictionary)
             > PostingEntries(self.dictionary, DOMAIN self.dictionary))
          => getsizeof(self'.dictionary) > getsizeof(self.dictionary)]_vars

\* C15: when a block file of the block directory does not deserialise,
\* merge_blocks fails and commits nothing: the merge does not run on the
\* other blocks, and no final postings file and no lexicon are written.
C15_CorruptBlockFatal ==
    DOMAIN damaged # {} =>
        /\ pc \in {"indexed", "failed"}
        /\ final_index_bin = <<>>
        /\ lexicon_dat = <<>>

\* the files of a build of the stream docs with the limit, in a directory
\* and at output paths that hold no file before it
FreshBuild(limit, docs) ==
    LET ix  == run_indexing(limit, <<>>, docs)
        out == merge_blocks(ix.dir, <<>>, <<>>)
    IN [ final_index |-> out.final_index,
         lexicon     |-> out.lexicon,
         metadata    |-> <<ix.metadata>> ]

\* C16: the final postings file, the lexicon and the metadata a build leaves
\* depend on its document stream and block-size limit only, whatever builds
\* ran before it in the same directory: they are the files of the same
\* build in an empty directory.
C16_BuildDeterministic ==
    pc = "built" =>
        [ final_index |-> final_index_bin,
          lexicon     |-> lexicon_dat,
          metadata    |-> metadata_pkl ] = FreshBuild(self.block_size_limit, consumed)

\* C17: in the index a build leaves, the document frequency of every term
\* (the size of its final posting list) is at most the N of the metadata of
\* that build, so that the idf the ranker computes from them is not
\* negative.
C17_DfAtMostN ==
    (pc = "built" /\ metadata_pkl # <<>>) =>
        \A t \in DOMAIN LexiconOnDisk :
            LET df == Len(FinalPostings(t))
                N  == metadata_pkl[1].N
            IN /\ df <= N
               /\ Idf(N, df) >= 0

\* x >= y and x > y on floats: false when either is nan
FloatGeq(x, y) == x # NaN /\ y # NaN /\ x >= y
FloatGt(x, y) == x # NaN /\ y # NaN /\ x > y

\* the posting lists search_loop hands to rank for a query
CandidatePostings(tokens) ==
    GetAllPostings(reader, final_index_bin, tokens, <<>>).candidate_postings

\* a result list of rank for the query, the posting lists and top_k is as
\* C18 says
RankedAsClaimed(results, tokens, candidate_postings, top_k) ==
    LET D       == AllCandidateDocs(candidate_postings)
        scores  == ScoreLoop(ranker, tokens, candidate_postings, [d \in D |-> 0])
        shown   == {results[i][1] : i \in 1..Len(results)}
    IN /\ Len(results) = (IF top_k <= Cardinality(D) THEN top_k ELSE Cardinality(D))
       /\ shown \subseteq D
       /\ Cardinality(shown) = Len(results)
       /\ \A i \in 1..Len(results) : results[i][2] = scores[results[i][1]]
       /\ \A i \in 1..(Len(results) - 1) : FloatGeq(results[i][2], results[i + 1][2])
       /\ \A d \in D \ shown : \A i \in 1..Len(results) :
              ~FloatGt(scores[d], results[i][2])

ScoreFrom(index_file, lexicon_file, metadata_file, tokens, d) ==
    LET metadata == metadata_file[1]
        rk       == BM25Ranker(metadata.doc_lengths, metadata.avgdl, metadata.N)
        got      == GetAllPostings(IndexReader(index_file, lexicon_file),
                                   index_file, tokens, <<>>)
        D        == AllCandidateDocs(got.candidate_postings)
        scores   == ScoreLoop(rk, tokens, got.candidate_postings, [x \in D |-> 0])
    IN IF d \in D THEN scores[d] ELSE 0

\* the score of document d for a query in the index on disk
ScoreNow(tokens, d) ==
    ScoreFrom(final_index_bin, lexicon_dat, metadata_pkl, tokens, d)

\* the score of document d for a query after the index is rebuilt from the
\* stream docs
ScoreRebuilt(docs, tokens, d) ==
    LET b == FreshBuild(self.block_size_limit, docs)
    IN ScoreFrom(b.final_index, b.lexicon, b.metadata, tokens, d)

\* the stream with one more occurrence of term t in its i-th document
OneMore(docs, i, t) == [docs EXCEPT ![i][2] = Append(@, t)]

\* for every query of the set, every term t of it and every document that
\* holds t: one more occurrence of t in the document and a rebuild give the
\* document a higher score for the query
Monotone(queries) ==
    \A tokens \in queries : \A k \in 1..Len(tokens) : \A i \in 1..Len(consumed) :
        Count(consumed[i][2], tokens[k]) > 0 =>
            ScoreRebuilt(OneMore(consumed, i, tokens[k]), tokens, consumed[i][1])
                > ScoreNow(tokens, consumed[i][1])

\* the queries of one term, and of one or two distinct terms
OneTermQueries == {<<t>> : t \in Terms}

DistinctTermQueries == OneTermQueries \cup {q \in Terms \X Terms : q[1] # q[2]}

\* C19 as stated: for a query of one or several distinct terms, adding an
\* occurrence of a query term to a document and rebuilding the index
\* strictly increases the document's score.
C19_MonotoneAnyQuery == pc = "built" => Monotone(DistinctTermQueries)

\* C19 amended: the same for a query of one term.
C19_MonotoneOneTerm == pc = "built" => Monotone(OneTermQueries)

\* C19's case: a document with both terms next to one of three occurrences
\* of the first term; one more occurrence of the first term raises its
\* score for the query of that term
C19_Witness ==
    /\ pc = "built"
    /\ consumed = << <<1, <<1, 2>>>>, <<2, <<1, 1, 1>>>> >>
    /\ ScoreRebuilt(OneMore(consumed, 1, 1), <<1>>, 1) > ScoreNow(<<1>>, 1)
    /\ ScoreNow(<<1>>, 1) > 0

RECURSIVE MergedOver(_, _, _)
\* the posting list merge_blocks accumulates for term t from the block
\* files, taken in the order of the list files
MergedOver(files, t, acc) ==
    IF files = <<>> THEN acc
    ELSE MergedOver(Tail(files), t,
                    IF t \in BlockTerms(Head(files))
                    THEN MergePostings(acc, BlockPostings(Head(files), t))
                    ELSE acc)

\* the posting list merge_blocks wrote for term t
WrittenPostings(t) == MergedOver(SortedFiles(DOMAIN block_dir), t, <<>>)

\* C20: for every term t of the lexicon, get_postings(t) returns the
\* posting list merge_blocks wrote for t, which is not empty and has every
\* tf >= 1; it returns the same list when called again, when called after a
\* get_postings for any other term, and from a new IndexReader; and no step
\* of a search console changes the index files.
C20_ReadsStable ==
    /\ [](pc = "search" =>
            \A t \in DOMAIN reader.lexicon :
                LET first == get_postings(reader, final_index_bin, t)
                IN /\ first.postings = WrittenPostings(t)
                   /\ first.postings # <<>>
                   /\ \A i \in 1..Len(first.postings) : first.postings[i][2] >= 1
                   /\ get_postings(first.reader, final_index_bin, t).postings
                         = first.postings
                   /\ \A u \in Terms \cup UnknownTerms :
                         get_postings(get_postings(reader, final_index_bin, u).reader,
                                      final_index_bin, t).postings = first.postings
                   /\ FinalPostings(t) = first.postings)
    /\ [][pc = "search" =>
             (final_index_bin' = final_index_bin /\ lexicon_dat' = lexicon_dat)]_vars

\* C20's case: a new reader (cursor at 0) on an index of two terms, opened
\* after a console whose last query read a posting list
C20_Witness ==
    /\ pc = "search"
    /\ Cardinality(DOMAIN reader.lexicon) = 2
    /\ reader.file_handle = <<0>>
    /\ query_tokens # None
    /\ query_tokens[1] \in DOMAIN reader.lexicon
    /\ top_results # <<>>

\* the block files this run of run_indexing has written: block_1.bin to
\* block_<block_count>.bin
WrittenBlocks == 1..self.block_count

\* the block files of this run that hold doc_id d under term t
WrittenWith(t, d) == BlocksWith(t, d) \cap WrittenBlocks

\* the block files of this run that hold doc_id d under some term
BlocksOfDoc(d) == UNION {WrittenWith(t, d) : t \in Terms}

\* doc_id d has a posting in the buffer (self.dictionary)
Buffered(d) == \E t \in DOMAIN self.dictionary : d \in DictKeys(self.dictionary[t])

\* C21: in a run of run_indexing on a stream of distinct doc_ids, whatever
\* the block-size limit, every document is in at most one of the block files
\* the run writes and never both in a block file and in the buffer, so no
\* (term, doc_id) pair is in two of them; once run_indexing has returned,
\* every document with tokens is in exactly one block file, with all its
\* terms.
C21_OneBlockPerDocument ==
    DistinctDocIds(consumed) =>
        /\ \A t \in Terms : \A d \in DocIds : Cardinality(WrittenWith(t, d)) <= 1
        /\ \A d \in DocIds :
              /\ Cardinality(BlocksOfDoc(d)) <= 1
              /\ ~(Buffered(d) /\ BlocksOfDoc(d) # {})
        /\ pc # "indexing" =>
              \A i \in 1..Len(consumed) :
                 consumed[i][2] # <<>> =>
                    \E n \in WrittenBlocks :
                       /\ BlocksOfDoc(consumed[i][1]) = {n}
                       /\ \A t \in Terms :
                             Count(consumed[i][2], t) > 0 =>
                                n \in WrittenWith(t, consumed[i][1])

\* C21's case: two documents with the same two terms, the limit reached by
\* each of them, so two block files that hold the same terms
C21_Witness ==
    /\ pc = "indexed"
    /\ DistinctDocIds(consumed)
    /\ Len(consumed) = 2
    /\ self.block_count = 2
    /\ self.block_size_limit > 0
    /\ \A i \in 1..2 : \A t \in Terms : Count(consumed[i][2], t) = 1

\* the entries of a block file are in strictly ascending term order, so no
\* term is repeated
Ascending(block) ==
    \A i \in 1..(Len(block) - 1) : block[i][1] < block[i + 1][1]

\* the document a step pulls from the stream, as a sequence: empty for a
\* step that pulls none
Pulled == SubSeq(consumed', Len(consumed) + 1, Len(consumed'))

\* the terms a step adds to the buffer
PulledTerms ==
    UNION {{Pulled[j][2][i] : i \in 1..Len(Pulled[j][2])} : j \in 1..Len(Pulled)}

\* the doc_ids a step adds under term t
PulledDocs(t) == {Pulled[j][1] : j \in {i \in 1..Len(Pulled) : Count(Pulled[i][2], t) > 0}}

\* the doc_ids the buffer holds under term t
BufferDocs(dictionary, t) ==
    IF t \in DOMAIN dictionary THEN DictKeys(dictionary[t]) ELSE {}

\* a step that writes a block file: the file lists exactly the terms that
\* were in the buffer and those of the document just added, each with the
\* doc_ids the buffer held and the document just added, no posting list is
\* empty, the other block files stay as they are, and the buffer is empty
\* afterwards.  A step that writes none adds the document's terms to the
\* buffer and changes no block file.
BlockIsBuffer ==
    IF self'.block_count = self.block_count + 1
    THEN LET n == self'.block_count
         IN /\ n \in DOMAIN block_dir'
            /\ {block_dir'[n][i][1] : i \in 1..Len(block_dir'[n])}
                  = (DOMAIN self.dictionary) \cup PulledTerms
            /\ \A i \in 1..Len(block_dir'[n]) :
                  LET t == block_dir'[n][i][1]
                  IN /\ DictKeys(block_dir'[n][i][2])
                           = BufferDocs(self.dictionary, t) \cup PulledDocs(t)
                     /\ block_dir'[n][i][2] # <<>>
            /\ \A k \in (DOMAIN block_dir) \ {n} :
                  k \in DOMAIN block_dir' /\ block_dir'[k] = block_dir[k]
            /\ DOMAIN self'.dictionary = {}
    ELSE /\ block_dir' = block_dir
         /\ pc' = "indexing" =>
               /\ DOMAIN self'.dictionary = (DOMAIN self.dictionary) \cup PulledTerms
               /\ \A t \in DOMAIN self'.dictionary :
                     BufferDocs(self'.dictionary, t)
                        = BufferDocs(self.dictionary, t) \cup PulledDocs(t)

\* C22: every block file write_block has written lists its entries in
\* strictly ascending term order with no term repeated; a block file holds
\* exactly the terms (and doc_ids) added to the buffer since the previous
\* flush; and write_block leaves the buffer empty, so that nothing carries
\* over into the next block file.
C22_BlockIsSortedBuffer ==
    /\ [](\A n \in WrittenBlocks : n \in DOMAIN block_dir /\ Ascending(block_dir[n]))
    /\ [](pc # "indexing" => DOMAIN self.dictionary = {})
    /\ [][BlockIsBuffer]_vars

\* C22's case: the second block file of a run is written with two terms, the
\* second document's, which were added in descending order, while the first
\* block file holds another document
C22_Witness ==
    /\ self.block_count = 2
    /\ Len(consumed) = 2
    /\ consumed[1][1] # consumed[2][1]
    /\ consumed[1][2] # <<>>
    /\ consumed[2][2] = <<2, 1>>
    /\ Len(block_dir[2]) = 2
    /\ DOMAIN self.dictionary = {}

\* a step in which write_block runs
WritesBlock == self'.block_count = self.block_count + 1

\* the step in which run_indexing leaves its loop and returns
EndStep == pc = "indexing" /\ pc' = "indexed"

\* at end-of-stream one final block file is written if and only if the
\* buffer is non-empty, and no block file changes otherwise
FinalFlushIff ==
    EndStep =>
        /\ WritesBlock <=> DOMAIN self.dictionary # {}
        /\ ~WritesBlock => (block_dir' = block_dir /\ self'.block_count = self.block_count)

\* the metadata record is written by the end-of-stream step and by no
\* other: there is none before the step, the one written counts every
\* document of the stream, and no later step of the build writes a block
\* file or the metadata
MetadataOnceAtEnd ==
    /\ EndStep =>
          /\ metadata_pkl = <<>>
          /\ metadata_pkl' # <<>>
          /\ metadata_pkl'[1].N = Len(consumed)
          /\ metadata_pkl'[1].total_length = TotalTokens(consumed)
    /\ ~EndStep => metadata_pkl' = metadata_pkl
    /\ pc # "indexing" => (block_dir' = block_dir /\ self' = self)

\* the block file a step writes has at least one entry
WrittenBlockNotEmpty == WritesBlock => block_dir'[self'.block_count] # <<>>

\* a block file without entries is written only inside the loop, with a
\* block-size limit of 0, when the buffer was empty and the document just
\* pulled has no token
EmptyBlockOnlyAtLimitZero ==
    (WritesBlock /\ block_dir'[self'.block_count] = <<>>) =>
        /\ ~EndStep
        /\ self.block_size_limit = 0
        /\ DOMAIN self.dictionary = {}
        /\ Len(Pulled) = 1
        /\ Pulled[1][2] = <<>>

KeyLess(p, q) == p[1] < q[1] \/ (p[1] = q[1] /\ p[2] < q[2])

\* the (term, stream_index) keys still to be popped: those on the heap and
\* those the iterators have not yielded yet
Pending(m) ==
    {<<e[1], e[2]>> : e \in m.heap}
        \cup UNION {{<<m.iterators[i][j][1], i>> : j \in 1..Len(m.iterators[i])} :
                       i \in 1..Len(m.iterators)}

\* the entry a round of the main loop pops: the one that leaves the heap
Popped == CHOOSE e \in merge.heap : e \notin merge'.heap

\* a round of the main loop pops an entry whose (term, stream_index) key is
\* not above any key on the heap and is below every key popped later; it
\* takes one entry off the heap and pushes at most one, of the same stream
PopsInOrder ==
    (pc = "merging" /\ merge.heap # {}) =>
        /\ \E e \in merge.heap : e \notin merge'.heap
        /\ \A f \in merge.heap :
              <<f[1], f[2]>> = <<Popped[1], Popped[2]>>
                 \/ KeyLess(<<Popped[1], Popped[2]>>, <<f[1], f[2]>>)
        /\ \A q \in Pending(merge') : KeyLess(<<Popped[1], Popped[2]>>, q)
        /\ merge'.heap \ merge.heap \subseteq {f \in merge'.heap : f[2] = Popped[2]}
        /\ merge.heap \ merge'.heap = {Popped}
        /\ merge'.current_term = <<Popped[1]>>

\* the heap holds at most one entry per block stream, so at most K entries,
\* and no term that is already in the output is still to be popped
HeapOnePerStream ==
    pc = "merging" =>
        /\ \A e, f \in merge.heap : e[2] = f[2] => e = f
        /\ \A e \in merge.heap : e[2] \in 1..Len(merge.iterators)
        /\ Cardinality(merge.heap) <= Len(merge.iterators)
        /\ \A t \in DOMAIN merge.lexicon :
              /\ merge.current_term # <<t>>
              /\ \A q \in Pending(merge) : q[1] # t

\* C24: throughout the main loop of merge_blocks the heap holds at most one
\* entry per block stream (at most K entries); entries are popped in
\* non-decreasing (term, stream_index) order, so that of two blocks with the
\* same term the one with the lower stream index is merged first; and once a
\* term has been flushed to the output no later pop carries that term.
C24_HeapOrder == []HeapOnePerStream /\ [][PopsInOrder]_vars

\* C24's case: two block streams that both hold term 2; term 1 has been
\* flushed, the entry of stream 1 for term 2 has been popped and the entry
\* of stream 2 for term 2 is on the heap
C24_Witness ==
    /\ pc = "merging"
    /\ Len(merge.iterators) = 2
    /\ DOMAIN merge.lexicon = {1}
    /\ merge.current_term = <<2>>
    /\ \E e \in merge.heap : e[1] = 2 /\ e[2] = 2
    /\ 2 \in BlockTerms(1)

\* the reader search_loop opens on the files as they are now
ReaderNow == IndexReader(final_index_bin, lexicon_dat)

\* the candidate set rank builds for a query on the index as it is now
CandidatesNow(tokens) ==
    AllCandidateDocs(GetAllPostings(ReaderNow, final_index_bin, tokens, <<>>).candidate_postings)

\* C25: with the metadata and the index a build has left, rank never divides
\* by an avgdl of zero: whenever a query has a candidate document the
\* metadata's total_length and avgdl are above 0, and a build with N = 0 or
\* with no token at all leaves the reader an empty lexicon, so that rank
\* returns before the division.
C25_AvgdlNotZero ==
    (pc \in {"built", "search"} /\ metadata_pkl # <<>>) =>
        LET metadata == metadata_pkl[1]
        IN /\ \A tokens \in Queries :
                 CandidatesNow(tokens) # {} =>
                    /\ metadata.total_length > 0
                    /\ metadata.avgdl.num > 0
           /\ (metadata.N = 0 \/ metadata.total_length = 0) =>
                 DOMAIN ReaderNow.lexicon = {}
====
